---- MODULE Spec2Model ----
(***************************************************************************)
(* A model of kingdon's sparse multivector (kingdon/multivector.py) and of *)
(* its operator derivations (kingdon/codegen.py).                          *)
(*                                                                         *)
(* A multivector is the pair of tuples (_keys, _values) that               *)
(* MultiVector.fromkeysvalues stores.  The algebra descriptor              *)
(* (kingdon/algebra.py: signs, indices_for_grades, bin2canon, canon2bin,   *)
(* d, r, pss) is not part of the sources at hand; its tables are modelled  *)
(* from the interface the specification gives for it.                      *)
(***************************************************************************)
EXTENDS Integers, Sequences, FiniteSets, TLC

VARIABLES
    algebra,    \* the signature (p, q, r) of the shared algebra descriptor
    mv,         \* the multivector value the operations act on
    last,       \* the last operation: its name, operands, arguments, outcome
    nops,       \* the number of operations applied since construction
    inv,        \* a run of the inverse derivation codegen_inv
    call,       \* a call of a multivector as a function
    arr,        \* multivectors whose coefficients are arrays held by reference
    cache       \* the descriptor's store of derived operators

vars == <<algebra, mv, last, nops, inv, call, arr, cache>>

\* The parts of the state a behaviour does not use stay at these values.
InvIdle == [pc |-> "idle"]

CallIdle == [pc |-> "idle"]

ArrIdle == [pc |-> "idle"]

CacheIdle == [pc |-> "idle"]

MvIdle == [keys |-> <<>>, values |-> <<>>]

LastIdle == [op |-> "idle", status |-> "ok"]

---------------------------------------------------------------------------
(* Bounds of the model.                                                    *)

\* Coefficients given to the constructor are 1..MaxVal; sums are kept
\* within -MaxVal..MaxVal by the guards of the additive actions.
MaxVal == 2

\* Explicit key tuples given to the constructor have at most MaxKeys entries.
MaxKeys == 2

\* At most MaxOps operations are chained on a constructed value.
MaxOps == 2

\* The signatures (p, q, r) the descriptor is instantiated with: zero, one
\* and two degenerate dimensions.
Signatures ==
    { [p |-> 2, q |-> 0, r |-> 0],
      [p |-> 1, q |-> 0, r |-> 1],
      [p |-> 0, q |-> 0, r |-> 2] }

---------------------------------------------------------------------------
(* The algebra descriptor.                                                 *)

AlgD == algebra.p + algebra.q + algebra.r

AlgR == algebra.r

\* len(algebra): the number of basis blades.
AlgLen == 2 ^ AlgD

AllKeys == 0 .. (AlgLen - 1)

Bit(k, i) == (k \div (2 ^ i)) % 2

BitsOf(k) == { i \in 0 .. (AlgD - 1) : Bit(k, i) = 1 }

\* bin(ind).count('1')
PopCount(k) == Cardinality(BitsOf(k))

\* ei ^ ej on blade keys.
XorKey(ei, ej) ==
    CHOOSE k \in AllKeys :
        \A i \in 0 .. (AlgD - 1) : Bit(k, i) = (Bit(ei, i) + Bit(ej, i)) % 2

\* The square of basis vector number i: r null vectors first, then p
\* positive ones, then q negative ones.
MetricOf(i) ==
    IF i < algebra.r THEN 0
    ELSE IF i < algebra.r + algebra.p THEN 1 ELSE -1

\* The number of transpositions that bring the concatenation of the two
\* blades' basis vectors into canonical order.
swaps(ei, ej) ==
    Cardinality({ ij \in BitsOf(ei) \X BitsOf(ej) : ij[1] > ij[2] })

\* signs[ei, ej]: the coefficient of the blade ei ^ ej in the product of the
\* blades ei and ej.
signs(ei, ej) ==
    LET common == BitsOf(ei) \cap BitsOf(ej)
        neg    == Cardinality({ i \in common : MetricOf(i) = -1 })
    IN  IF \E i \in common : MetricOf(i) = 0 THEN 0
        ELSE IF (swaps(ei, ej) + neg) % 2 = 0 THEN 1 ELSE -1

\* The position of a key in the canonical order: by grade, then by value.
KeyRank(k) == PopCount(k) * AlgLen + k

RECURSIVE SortedKeys(_)
SortedKeys(S) ==
    IF S = {} THEN <<>>
    ELSE LET k == CHOOSE x \in S : \A y \in S : KeyRank(x) <= KeyRank(y)
         IN  <<k>> \o SortedKeys(S \ {k})

\* indices_for_grades[grades], for a set of grades within 0..d.
indices_for_grades(grades) ==
    SortedKeys({ k \in AllKeys : PopCount(k) \in grades })

DigitStr(n) == <<"0", "1", "2", "3", "4", "5", "6", "7", "8", "9">>[n + 1]

\* Basis vectors are numbered from 0 when the algebra has a null vector,
\* and from 1 otherwise.
StartIndex == IF algebra.r > 0 THEN 0 ELSE 1

RECURSIVE DigitsOf(_, _)
DigitsOf(k, i) ==
    IF i >= AlgD THEN ""
    ELSE (IF Bit(k, i) = 1 THEN DigitStr(i + StartIndex) ELSE "")
         \o DigitsOf(k, i + 1)

\* bin2canon[k][1:]: the canonical name without its leading "e".
CanonSuffix(k) == DigitsOf(k, 0)

\* bin2canon[k]
bin2canon(k) == "e" \o CanonSuffix(k)

CanonNames == { bin2canon(k) : k \in AllKeys }

\* canon2bin[name], for a name of CanonNames.
canon2bin(name) == CHOOSE k \in AllKeys : bin2canon(k) = name

\* The pseudoscalar blade key.
PssKey == AlgLen - 1

---------------------------------------------------------------------------
(* Coefficients.  A coefficient is a number or a symbolic expression; the  *)
(* operations of this part are linear, so a coefficient is kept as the     *)
(* linear form  n0 + n1*s1 + ... : the function from its terms ("1" for    *)
(* the constant, a symbol's name otherwise) to their non-zero integer      *)
(* factors.  The form with no term is the additive identity 0.             *)

CZero == [t \in {} |-> 0]

CNum(n) == IF n = 0 THEN CZero ELSE [t \in {"1"} |-> n]

CSym(s) == [t \in {s} |-> 1]

CAt(c, t) == IF t \in DOMAIN c THEN c[t] ELSE 0

\* a + b
CAdd(a, b) ==
    LET D == { t \in (DOMAIN a) \cup (DOMAIN b) : CAt(a, t) + CAt(b, t) # 0 }
    IN  [t \in D |-> CAt(a, t) + CAt(b, t)]

\* n * a for an integer n
CScale(n, a) == IF n = 0 THEN CZero ELSE [t \in DOMAIN a |-> n * a[t]]

\* -a
CNeg(a) == CScale(-1, a)

\* The largest factor of a coefficient, for the guards that bound sums.
CWithin(c, m) == \A t \in DOMAIN c : c[t] <= m /\ c[t] >= -m

---------------------------------------------------------------------------
(* Multivectors.                                                           *)

\* MultiVector.fromkeysvalues: the object holding the two tuples as given.
fromkeysvalues(keys, values) == [keys |-> keys, values |-> values]

\* The equality @dataclass generates: the fields compared as tuples (the
\* algebra is the one shared descriptor).
MvEq(a, b) == a.values = b.values /\ a.keys = b.keys

Range(s) == { s[i] : i \in DOMAIN s }

\* tuple.index(key): the first position holding key.
IndexOf(seq, key) ==
    CHOOSE i \in DOMAIN seq : seq[i] = key /\ \A j \in 1 .. (i - 1) : seq[j] # key

\* A blade given by its integer key.
ItemKey(n) == [n |-> n, s |-> ""]

\* A blade given by a name.
ItemName(s) == [n |-> -1, s |-> s]

IsIntItem(item) == item.s = ""

\* key in algebra.bin2canon
InBin2Canon(item) == IsIntItem(item) /\ item.n \in AllKeys

\* key in algebra.canon2bin
InCanon2Bin(item) == (~IsIntItem(item)) /\ item.s \in CanonNames

\* key if key in bin2canon else canon2bin[key]; "KeyError" when neither
\* table holds the item.
ResolveItem(item) ==
    IF InBin2Canon(item) THEN [status |-> "ok", key |-> item.n]
    ELSE IF InCanon2Bin(item) THEN [status |-> "ok", key |-> canon2bin(item.s)]
    ELSE [status |-> "KeyError", key |-> -1]

\* __getitem__ without the except clause: the ValueError of tuple.index
\* escapes when the blade is not an active key.
getitem_NoCatch(m, item) ==
    LET res == ResolveItem(item)
    IN  IF res.status # "ok" THEN [status |-> res.status, value |-> CZero]
        ELSE IF res.key \notin Range(m.keys)
             THEN [status |-> "ValueError", value |-> CZero]
        ELSE [status |-> "ok", value |-> m.values[IndexOf(m.keys, res.key)]]

\* MultiVector.__getitem__ for a single blade (no sub-slices): the stored
\* coefficient, or 0 when the blade is not an active key.
getitem(m, item) ==
    LET res == ResolveItem(item)
    IN  IF res.status # "ok" THEN [status |-> res.status, value |-> CZero]
        ELSE IF res.key \notin Range(m.keys)
             THEN [status |-> "ok", value |-> CZero]
        ELSE [status |-> "ok", value |-> m.values[IndexOf(m.keys, res.key)]]

\* A Python dict as the pair of its keys, in insertion order, and values.
EmptyDict == [keys |-> <<>>, values |-> <<>>]

\* dct[k] = v
DictSet(dct, k, v) ==
    IF k \in Range(dct.keys)
    THEN [dct EXCEPT !.values[IndexOf(dct.keys, k)] = v]
    ELSE [keys |-> Append(dct.keys, k), values |-> Append(dct.values, v)]

DictGet(dct, k) == dct.values[IndexOf(dct.keys, k)]

\* dict(zip(keys, values)), entry by entry.
RECURSIVE DictFromItems(_, _, _)
DictFromItems(keys, values, n) ==
    IF n = 0 THEN EmptyDict
    ELSE DictSet(DictFromItems(keys, values, n - 1), keys[n], values[n])

\* grade without the filter  if k in self.keys(): every key of the grades
\* is kept, an inactive one with the 0 that reading it returns.
grade_NoFilter(m, grades) ==
    LET sel == indices_for_grades(grades)
    IN  fromkeysvalues(sel,
            [i \in DOMAIN sel |-> getitem(m, ItemKey(sel[i])).value])

\* MultiVector.grade, for a set of grades within 0..d.
grade(m, grades) ==
    LET sel == SelectSeq(indices_for_grades(grades),
                         LAMBDA k : k \in Range(m.keys))
    IN  fromkeysvalues(sel,
            [i \in DOMAIN sel |-> getitem(m, ItemKey(sel[i])).value])

\* MultiVector.__neg__: values is a tuple, so every value is negated.
neg(m) ==
    fromkeysvalues(m.keys, [i \in DOMAIN m.values |-> CNeg(m.values[i])])

\* (-1) ** (bin(k).count("1") // 2)
ReversionSign(k) == IF (PopCount(k) \div 2) % 2 = 0 THEN 1 ELSE -1

\* MultiVector.__invert__: reversion.
invert(m) ==
    fromkeysvalues(m.keys,
        [i \in DOMAIN m.values |-> CScale(ReversionSign(m.keys[i]), m.values[i])])

\* The loop of MultiVector.__add__ over the first n items of other.
RECURSIVE AddItems(_, _, _)
AddItems(vals, other, n) ==
    IF n = 0 THEN vals
    ELSE LET acc == AddItems(vals, other, n - 1)
             k   == other.keys[n]
             v   == other.values[n]
         IN  IF k \in Range(acc.keys)
             THEN DictSet(acc, k, CAdd(DictGet(acc, k), v))
             ELSE DictSet(acc, k, v)

\* MultiVector.__add__ with a multivector.
add(m, other) ==
    LET vals == AddItems(DictFromItems(m.keys, m.values, Len(m.keys)),
                         other, Len(other.keys))
    IN  fromkeysvalues(vals.keys, vals.values)

\* MultiVector.__add__ with anything else: the scalar multivector of it.
addscalar(m, c) == add(m, fromkeysvalues(<<0>>, <<c>>))

\* MultiVector.__sub__
sub(m, other) == add(m, neg(other))

subscalar(m, c) == addscalar(m, CNeg(c))

---------------------------------------------------------------------------
(* MultiVector.__new__.  A call is the record                              *)
(*   vmap      values is a Mapping (its items are keys[i] -> values[i])    *)
(*   hasKeys   keys is not None                                            *)
(*   keys      the keys given (blades by integer key or by name)           *)
(*   values    the values given (empty when values is None)                *)
(*   name      the name given ("" when None)                               *)
(*   hasGrades grades is not None                                          *)
(*   grades    the grades given, as a set                                  *)
(* Values given as strings (sympify) are not part of the model.            *)

NewFailure(status) == [status |-> status, mv |-> fromkeysvalues(<<>>, <<>>)]

\* Lines 57-59: integer keys are kept when they are all integers; otherwise
\* every key is looked up in bin2canon, then in canon2bin.
NewConvertKeys(keys) ==
    IF \A i \in DOMAIN keys : IsIntItem(keys[i])
    THEN [status |-> "ok", keys |-> [i \in DOMAIN keys |-> keys[i].n]]
    ELSE IF \E i \in DOMAIN keys : ResolveItem(keys[i]).status # "ok"
         THEN [status |-> "KeyError", keys |-> <<>>]
    ELSE [status |-> "ok", keys |-> [i \in DOMAIN keys |-> ResolveItem(keys[i]).key]]

\* Lines 57-67: key conversion, the check against the grades, the object.
NewFinish(keys, values, grades) ==
    LET conv == NewConvertKeys(keys)
    IN  IF conv.status # "ok" THEN NewFailure(conv.status)
        ELSE IF ~(Range(conv.keys) \subseteq Range(indices_for_grades(grades)))
             THEN NewFailure("ValueError")
        ELSE [status |-> "ok", mv |-> fromkeysvalues(conv.keys, values)]

\* Line 53: one symbol per key, named name + bin2canon[k][1:].
NewSymbols(name, keys) ==
    [i \in DOMAIN keys |-> CSym(name \o CanonSuffix(keys[i].n))]

ItemsOfKeys(keys) == [i \in DOMAIN keys |-> ItemKey(keys[i])]

\* The last branch without the comparison of the lengths: only keys=None
\* fails.
LengthMismatch_Unchecked(inp) == ~inp.hasKeys

\* Line 54: len(keys) != len(values); len(None) raises TypeError as well.
LengthMismatch(inp) == (~inp.hasKeys) \/ Len(inp.keys) # Len(inp.values)

\* Lines 44-55: the construction mode, chosen by the kind of input.
NewByMode(inp, grades) ==
    LET nokeys == (~inp.hasKeys) \/ inp.keys = <<>>
        gkeys  == indices_for_grades(grades)
    IN  IF inp.vmap
        THEN \* keys, values = zip(*values.items()) cannot unpack no item
             IF inp.keys = <<>> THEN NewFailure("ValueError")
             ELSE NewFinish(inp.keys, inp.values, grades)
        ELSE IF Len(inp.values) = AlgLen /\ nokeys
        THEN NewFinish(ItemsOfKeys([i \in 1 .. AlgLen |-> i - 1]), inp.values, grades)
        ELSE IF Len(inp.values) = Len(gkeys) /\ nokeys
        THEN NewFinish(ItemsOfKeys(gkeys), inp.values, grades)
        ELSE IF inp.name # "" /\ inp.values = <<>>
        THEN LET keys == IF nokeys THEN ItemsOfKeys(gkeys) ELSE inp.keys
             IN  \* bin2canon[k] of a key that is no blade of the algebra
                 IF \E i \in DOMAIN keys : ~InBin2Canon(keys[i])
                 THEN NewFailure("KeyError")
                 ELSE NewFinish(keys, NewSymbols(inp.name, keys), grades)
        ELSE IF LengthMismatch(inp)
        THEN NewFailure("TypeError")
        ELSE NewFinish(inp.keys, inp.values, grades)

\* MultiVector.__new__
MultiVectorNew(inp) ==
    IF inp.hasGrades
    THEN IF \E g \in inp.grades : g < 0 \/ g > AlgD
         THEN NewFailure("ValueError")
         ELSE NewByMode(inp, inp.grades)
    ELSE NewByMode(inp, 0 .. AlgD)

\* algebra.multivector(mapping): the constructor called with a Mapping of
\* integer keys as its values.
AlgebraMultivector(dct) ==
    MultiVectorNew([vmap |-> TRUE, hasKeys |-> FALSE,
                    keys |-> ItemsOfKeys(dct.keys), values |-> dct.values,
                    name |-> "", hasGrades |-> FALSE, grades |-> {}])

---------------------------------------------------------------------------
(* Derivation and evaluation of the geometric product.  A derivation runs  *)
(* on placeholder multivectors, whose coefficient at key k is the symbol   *)
(* of k; a derived expression is the function from its monomials           *)
(* <<ei, ej>> (symbol ei of x times symbol ej of y) to their non-zero      *)
(* integer factors.                                                        *)

EZero == [m \in {} |-> 0]

EAt(e, m) == IF m \in DOMAIN e THEN e[m] ELSE 0

\* e + c * m
EAddTerm(e, m, c) ==
    LET D == { t \in (DOMAIN e) \cup {m} :
                 EAt(e, t) + (IF t = m THEN c ELSE 0) # 0 }
    IN  [t \in D |-> EAt(e, t) + (IF t = m THEN c ELSE 0)]

\* The loop of codegen_gp over the first n pairs of
\* product(x.vals.items(), y.vals.items()); res_vals is a defaultdict(int).
RECURSIVE GpAccumulate(_, _, _)
GpAccumulate(xkeys, ykeys, n) ==
    IF n = 0 THEN EmptyDict
    ELSE LET acc == GpAccumulate(xkeys, ykeys, n - 1)
             ei  == xkeys[((n - 1) \div Len(ykeys)) + 1]
             ej  == ykeys[((n - 1) % Len(ykeys)) + 1]
             k   == XorKey(ei, ej)
             old == IF k \in Range(acc.keys) THEN DictGet(acc, k) ELSE EZero
         IN  IF signs(ei, ej) # 0
             THEN DictSet(acc, k, EAddTerm(old, <<ei, ej>>, signs(ei, ej)))
             ELSE acc

\* The entries of a dict whose expression is not identical to zero.
RECURSIVE DropZeros(_, _)
DropZeros(dct, n) ==
    IF n = 0 THEN EmptyDict
    ELSE LET acc == DropZeros(dct, n - 1)
         IN  IF dct.values[n] # EZero
             THEN DictSet(acc, dct.keys[n], dct.values[n])
             ELSE acc

\* codegen_gp(x, y, symbolic=True) on the placeholders of two key tuples.
codegen_gp(xkeys, ykeys) ==
    LET res_vals == GpAccumulate(xkeys, ykeys, Len(xkeys) * Len(ykeys))
    IN  DropZeros(res_vals, Len(res_vals.keys))

CIsConst(c) == (DOMAIN c) \subseteq {"1"}

\* a * b where one factor is a number.
CMul(a, b) ==
    IF CIsConst(b) THEN CScale(CAt(b, "1"), a)
    ELSE IF CIsConst(a) THEN CScale(CAt(a, "1"), b)
    ELSE CHOOSE c \in {} : TRUE

\* The value of a derived expression at the coefficients of x and y: what
\* the callable of _lambdify_binary returns for one output key.
RECURSIVE EvalTerms(_, _, _, _)
EvalTerms(e, S, x, y) ==
    IF S = {} THEN CZero
    ELSE LET m == CHOOSE t \in S : TRUE
         IN  CAdd(CScale(e[m], CMul(x.values[IndexOf(x.keys, m[1])],
                                    y.values[IndexOf(y.keys, m[2])])),
                  EvalTerms(e, S \ {m}, x, y))

\* algebra.gp(x, y): the product derived for the operands' key tuples,
\* evaluated at their coefficients and zipped with the derived output keys.
AlgebraGp(x, y) ==
    LET derived == codegen_gp(x.keys, y.keys)
    IN  fromkeysvalues(derived.keys,
            [i \in DOMAIN derived.keys |->
                EvalTerms(derived.values[i], DOMAIN derived.values[i], x, y)])

\* algebra.pss: the unit pseudoscalar.
pss == fromkeysvalues(<<PssKey>>, <<CNum(1)>>)

\* algebra.div(x, algebra.pss): x times the inverse of the pseudoscalar,
\* which exists when the pseudoscalar does not square to zero.
AlgebraDivPss(x) ==
    IF signs(PssKey, PssKey) = 0
    THEN [status |-> "ZeroDivisionError", mv |-> fromkeysvalues(<<>>, <<>>)]
    ELSE [status |-> "ok",
          mv |-> AlgebraGp(x, fromkeysvalues(<<PssKey>>,
                                  <<CNum(signs(PssKey, PssKey))>>))]

---------------------------------------------------------------------------
(* Duality.                                                                *)

\* The policy selection with auto mode falling back to Hodge duality for
\* every degenerate algebra.
DualPolicy_HodgeDefault(kind) ==
    IF kind = "polarity" \/ (kind = "auto" /\ AlgR = 0) THEN "polarity"
    ELSE IF kind = "hodge" \/ (kind = "auto" /\ AlgR >= 1) THEN "hodge"
    ELSE IF kind = "auto" THEN "Exception"
    ELSE "ValueError"

\* The branch MultiVector.dual and MultiVector.undual take for a kind.
DualPolicy(kind) ==
    IF kind = "polarity" \/ (kind = "auto" /\ AlgR = 0) THEN "polarity"
    ELSE IF kind = "hodge" \/ (kind = "auto" /\ AlgR = 1) THEN "hodge"
    ELSE IF kind = "auto" THEN "Exception"
    ELSE "ValueError"

\* {len(algebra) - 1 - eI: signs[eI, len(algebra) - 1 - eI] * val ...}
HodgeDualDict(m) ==
    DictFromItems([i \in DOMAIN m.keys |-> AlgLen - 1 - m.keys[i]],
                  [i \in DOMAIN m.keys |->
                      CScale(signs(m.keys[i], AlgLen - 1 - m.keys[i]), m.values[i])],
                  Len(m.keys))

\* {len(algebra) - 1 - eI: signs[len(algebra) - 1 - eI, eI] * val ...}
HodgeUndualDict(m) ==
    DictFromItems([i \in DOMAIN m.keys |-> AlgLen - 1 - m.keys[i]],
                  [i \in DOMAIN m.keys |->
                      CScale(signs(AlgLen - 1 - m.keys[i], m.keys[i]), m.values[i])],
                  Len(m.keys))

DualResult(policy, res) ==
    [status |-> res.status, policy |-> policy, mv |-> res.mv]

\* MultiVector.dual
dual(m, kind) ==
    LET policy == DualPolicy(kind)
    IN  IF policy = "polarity" THEN DualResult(policy, AlgebraDivPss(m))
        ELSE IF policy = "hodge"
             THEN DualResult(policy, AlgebraMultivector(HodgeDualDict(m)))
        ELSE DualResult("none", NewFailure(policy))

\* MultiVector.undual
undual(m, kind) ==
    LET policy == DualPolicy(kind)
    IN  IF policy = "polarity"
        THEN DualResult(policy, [status |-> "ok", mv |-> AlgebraGp(m, pss)])
        ELSE IF policy = "hodge"
             THEN DualResult(policy, AlgebraMultivector(HodgeUndualDict(m)))
        ELSE DualResult("none", NewFailure(policy))

---------------------------------------------------------------------------
(* The anticommutator.                                                     *)

\* codegen_acp: the function's one statement is  return NotImplementedError.
codegen_acp(x, y) == [outcome |-> "return", value |-> "NotImplementedError"]

---------------------------------------------------------------------------
(* The inputs of the model.                                                *)

InputVals == { CNum(n) : n \in 1 .. MaxVal }

SeqsUpTo(S, n) == UNION { [1 .. k -> S] : k \in 0 .. n }

\* The value tuples given to the constructor: of every length up to n, the
\* numbers v, v+1, ... taken cyclically within 1..MaxVal, for every start v.
ValueSeqs(n) ==
    { [i \in 1 .. k |-> CNum(((v + i - 2) % MaxVal) + 1)] :
        k \in 0 .. n, v \in 1 .. MaxVal }

\* The blades a caller names: every key of the algebra, one integer that is
\* no key, the name of basis vector 1 and a name the algebra does not have.
KeyItems ==
    { ItemKey(k) : k \in 0 .. AlgLen } \cup { ItemName(bin2canon(1)), ItemName("e9") }

\* Key tuples name pairwise distinct blades (the keys of a multivector are
\* distinct).
DistinctItems(keys) ==
    \A i, j \in DOMAIN keys :
        i # j => /\ keys[i] # keys[j]
                 /\ (ResolveItem(keys[i]).status = "ok"
                     /\ ResolveItem(keys[j]).status = "ok")
                    => ResolveItem(keys[i]).key # ResolveItem(keys[j]).key

KeyTuples == { keys \in SeqsUpTo(KeyItems, MaxKeys) : DistinctItems(keys) }

\* grades is None, a set of grades of the algebra, or holds a grade above d.
GradeArgs ==
    { [has |-> FALSE, grades |-> {}] }
    \cup { [has |-> TRUE, grades |-> G] : G \in (SUBSET (0 .. AlgD)) \cup { {AlgD + 1} } }

\* keys is None, or a key tuple.
KeyArgs ==
    { [has |-> FALSE, keys |-> <<>>] }
    \cup { [has |-> TRUE, keys |-> keys] : keys \in KeyTuples }

\* The constructor calls of the model: values as a sequence, or as a
\* Mapping.
NewInputs ==
    { [vmap |-> FALSE, hasKeys |-> ka.has, keys |-> ka.keys, values |-> values,
       name |-> name, hasGrades |-> ga.has, grades |-> ga.grades] :
        ka \in KeyArgs, values \in ValueSeqs(AlgLen), name \in {"", "a"},
        ga \in GradeArgs }
    \cup
    { [vmap |-> TRUE, hasKeys |-> FALSE, keys |-> kv[1], values |-> kv[2],
       name |-> "", hasGrades |-> ga.has, grades |-> ga.grades] :
        kv \in { kv \in KeyTuples \X ValueSeqs(MaxKeys) : Len(kv[1]) = Len(kv[2]) },
        ga \in GradeArgs }

\* The second operands of the binary operations: the multivector with
\* coefficient 1 on every key of one grade, or of all grades.
OperandGrades == { {g} : g \in 0 .. AlgD } \cup { 0 .. AlgD }

Operands ==
    { fromkeysvalues(indices_for_grades(G),
                     [i \in DOMAIN indices_for_grades(G) |-> CNum(1)]) :
        G \in OperandGrades }

\* The scalars added to a multivector.
ScalarOperands == { CNum(0), CNum(1) }

\* The blades read by key and by name.
ReadItems == { ItemKey(k) : k \in AllKeys } \cup { ItemName(n) : n \in CanonNames }

Kinds == { "auto", "polarity", "hodge", "poincare" }

Bounded(m) == \A i \in DOMAIN m.values : CWithin(m.values[i], MaxVal)

---------------------------------------------------------------------------
(* The state machine: a multivector is constructed, then operations are    *)
(* applied to it; an operation that raises leaves the value as it was.     *)

Init ==
    /\ algebra \in Signatures
    /\ cache = CacheIdle
    /\ \E inp \in NewInputs :
          LET res == MultiVectorNew(inp)
          IN  /\ mv = res.mv
              /\ last = [op |-> "new", status |-> res.status, inp |-> inp]
    /\ nops = 0
    /\ inv = InvIdle
    /\ call = CallIdle
    /\ arr = ArrIdle

\* A value was constructed and the chain of operations may grow.
Ready == /\ ~(last.op = "new" /\ last.status # "ok")
         /\ nops < MaxOps

Neg ==
    /\ Ready
    /\ mv' = neg(mv)
    /\ last' = [op |-> "neg", status |-> "ok", before |-> mv]
    /\ nops' = nops + 1
    /\ UNCHANGED <<algebra, cache, inv, call, arr>>

Invert ==
    /\ Ready
    /\ mv' = invert(mv)
    /\ last' = [op |-> "invert", status |-> "ok", before |-> mv]
    /\ nops' = nops + 1
    /\ UNCHANGED <<algebra, cache, inv, call, arr>>

AddScalar ==
    /\ Ready
    /\ \E c \in ScalarOperands :
          /\ Bounded(addscalar(mv, c))
          /\ mv' = addscalar(mv, c)
          /\ last' = [op |-> "addscalar", status |-> "ok", before |-> mv, scalar |-> c]
    /\ nops' = nops + 1
    /\ UNCHANGED <<algebra, cache, inv, call, arr>>

SubScalar ==
    /\ Ready
    /\ \E c \in ScalarOperands :
          /\ Bounded(subscalar(mv, c))
          /\ mv' = subscalar(mv, c)
          /\ last' = [op |-> "subscalar", status |-> "ok", before |-> mv, scalar |-> c]
    /\ nops' = nops + 1
    /\ UNCHANGED <<algebra, cache, inv, call, arr>>

AddMV ==
    /\ Ready
    /\ \E w \in Operands \cup {mv} :
          /\ Bounded(add(mv, w))
          /\ mv' = add(mv, w)
          /\ last' = [op |-> "add", status |-> "ok", before |-> mv, other |-> w]
    /\ nops' = nops + 1
    /\ UNCHANGED <<algebra, cache, inv, call, arr>>

SubMV ==
    /\ Ready
    /\ \E w \in Operands \cup {mv} :
          /\ Bounded(sub(mv, w))
          /\ mv' = sub(mv, w)
          /\ last' = [op |-> "sub", status |-> "ok", before |-> mv, other |-> w]
    /\ nops' = nops + 1
    /\ UNCHANGED <<algebra, cache, inv, call, arr>>

Grade ==
    /\ Ready
    /\ \E G \in SUBSET (0 .. AlgD) :
          /\ mv' = grade(mv, G)
          /\ last' = [op |-> "grade", status |-> "ok", before |-> mv, grades |-> G]
    /\ nops' = nops + 1
    /\ UNCHANGED <<algebra, cache, inv, call, arr>>

GetItem ==
    /\ Ready
    /\ \E item \in ReadItems :
          LET res == getitem(mv, item)
          IN  last' = [op |-> "getitem", status |-> res.status, before |-> mv,
                       item |-> item, value |-> res.value]
    /\ nops' = nops + 1
    /\ UNCHANGED <<algebra, cache, mv, inv, call, arr>>

Dual ==
    /\ Ready
    /\ \E kind \in Kinds :
          LET res == dual(mv, kind)
          IN  /\ mv' = IF res.status = "ok" THEN res.mv ELSE mv
              /\ last' = [op |-> "dual", status |-> res.status, before |-> mv,
                          kind |-> kind, policy |-> res.policy]
    /\ nops' = nops + 1
    /\ UNCHANGED <<algebra, cache, inv, call, arr>>

Undual ==
    /\ Ready
    /\ \E kind \in Kinds :
          LET res == undual(mv, kind)
          IN  /\ mv' = IF res.status = "ok" THEN res.mv ELSE mv
              /\ last' = [op |-> "undual", status |-> res.status, before |-> mv,
                          kind |-> kind, policy |-> res.policy]
    /\ nops' = nops + 1
    /\ UNCHANGED <<algebra, cache, inv, call, arr>>

\* MultiVector.acp hands both operands to the derivation codegen_acp.
Acp ==
    /\ Ready
    /\ \E w \in Operands :
          LET res == codegen_acp(mv, w)
          IN  last' = [op |-> "acp", status |-> "ok", before |-> mv, other |-> w,
                       outcome |-> res.outcome, value |-> res.value]
    /\ nops' = nops + 1
    /\ UNCHANGED <<algebra, cache, mv, inv, call, arr>>

Next ==
    \/ Neg
    \/ Invert
    \/ AddScalar
    \/ SubScalar
    \/ AddMV
    \/ SubMV
    \/ Grade
    \/ GetItem
    \/ Dual
    \/ Undual
    \/ Acp

Spec == Init /\ [][Next]_vars

---------------------------------------------------------------------------
(* The inverse derivation codegen_inv (Shirokov's iteration).  The         *)
(* multivectors it works on give their key -> value mapping as  vals ; the *)
(* product  x * adj_x  is the descriptor's gp, and                         *)
(* algebra.multivector rebuilds a value from a mapping.                    *)
(*                                                                         *)
(* What the descriptor's gp does with a coefficient that comes out 0 is    *)
(* not in the sources at hand.  Both treatments are followed: "kept", the  *)
(* output keys of the derivation zipped with whatever the callable         *)
(* returns, and "dropped", the filter of the retired _binary_operation     *)
(* (multivector.py), which removes a symbolic coefficient that simplifies  *)
(* to 0 and keeps every numeric one.                                       *)

\* The loop of codegen_inv is followed for at most InvMaxIter iterations.
InvMaxIter == 6

\* tuple(sorted(S)) for a set of integers.
RECURSIVE SortedTuple(_)
SortedTuple(S) ==
    IF S = {} THEN <<>>
    ELSE LET lo == CHOOSE n \in S : \A o \in S : n <= o
         IN  <<lo>> \o SortedTuple(S \ {lo})

\* MultiVector.grades: the grades of the keys, whatever their coefficients.
grades(m) == SortedTuple({ PopCount(m.keys[i]) : i \in DOMAIN m.keys })

\* bool(m): a multivector defines __len__ and no __bool__.
Truthy(m) == Len(m.values) > 0

\* m.vals: the mapping from the keys of m to its coefficients.
vals(m) == DictFromItems(m.keys, m.values, Len(m.keys))

\* n / i when the quotient is a whole number.
CDivides(i, c) == \A t \in DOMAIN c : c[t] % i = 0

CQuot(c, i) == [t \in DOMAIN c |-> c[t] \div i]

\* The constant with the quotient rounded up.
InvK_RoundedUp == 2 ^ ((AlgD + 2) \div 2)

\* k = 2 ** ((x.algebra.d + 1) // 2)
InvK == 2 ^ ((AlgD + 1) \div 2)

\* while x_i.grades != (0,) and x_i
InvLoopCond(x_i) == grades(x_i) # <<0>> /\ Truthy(x_i)

\* c_i = k * x_i[0] / i
InvC(x_i, i, k) == CQuot(CScale(k, getitem(x_i, ItemKey(0)).value), i)

\* {k: v for k, v in zip(keys_out, func(*args)) if simplify(v)}
RECURSIVE DropZeroValues(_, _)
DropZeroValues(m, n) ==
    IF n = 0 THEN EmptyDict
    ELSE LET acc == DropZeroValues(m, n - 1)
         IN  IF m.values[n] = CZero THEN acc
             ELSE DictSet(acc, m.keys[n], m.values[n])

ZeroModes == { "kept", "dropped" }

\* x * y
DropZeroCoefficients(m) == DropZeroValues(m, Len(m.keys))

MvOfDict(dct) == fromkeysvalues(dct.keys, dct.values)

InvProduct(zeros, x, y) ==
    IF zeros = "kept" THEN AlgebraGp(x, y)
    ELSE MvOfDict(DropZeroCoefficients(AlgebraGp(x, y)))

\* The body of the loop: simplify leaves a number as it is and the
\* mappings built from adj_x.vals and x_i.vals keep every key, also one
\* whose coefficient is 0.
\* The outcome of an iteration whose statements gave the adjoint adj and,
\* for the next running term, the construction outcome x1.
InvOutcome(x_i, adj, x1) ==
    [status |-> x1.status, adj_x |-> adj,
     x_i |-> IF x1.status = "ok" THEN x1.mv ELSE x_i]

\* x_i = x * adj_x;  x_i = x.algebra.multivector({k: simplify(v) ...})
InvMultiply(zeros, x, x_i, adj1) ==
    IF adj1.status # "ok"
    THEN [status |-> adj1.status, adj_x |-> adj1.mv, x_i |-> x_i]
    ELSE InvOutcome(x_i, adj1.mv,
                    AlgebraMultivector(vals(InvProduct(zeros, x, adj1.mv))))

\* adj_x = (x_i - c_i);  adj_x = x.algebra.multivector({k: simplify(v) ...})
InvBody(zeros, x, x_i, i, k) ==
    InvMultiply(zeros, x, x_i,
                AlgebraMultivector(vals(subscalar(x_i, InvC(x_i, i, k)))))

\* The multivectors inverted: every key set in the order of the algebra's
\* key list, with coefficients in 0 .. MaxVal.
InvVals == { CNum(n) : n \in 0 .. MaxVal }

InvInputs ==
    UNION { { fromkeysvalues(SortedKeys(S), values) :
                values \in [1 .. Cardinality(S) -> InvVals] } :
            S \in SUBSET AllKeys }

\* The algebras inverted in: those of Signatures, of even dimension, and
\* one of odd dimension.
InvSignatures == Signatures \cup { [p |-> 1, q |-> 0, r |-> 0] }

InvInit ==
    /\ algebra \in InvSignatures
    /\ cache = CacheIdle
    /\ \E x \in InvInputs, zeros \in ZeroModes :
          inv = [pc |-> "loop", x |-> x, x_i |-> x, adj_x |-> MvIdle,
                 assigned |-> FALSE, i |-> 1, k |-> InvK, status |-> "ok",
                 divisor |-> CZero, zeros |-> zeros]
    /\ mv = MvIdle
    /\ last = LastIdle
    /\ nops = 0
    /\ call = CallIdle
    /\ arr = ArrIdle

\* The run after an iteration with outcome res.
InvAfter(run, res) ==
    IF res.status = "ok"
    THEN [run EXCEPT !.adj_x = res.adj_x, !.assigned = TRUE,
                     !.x_i = res.x_i, !.i = @ + 1]
    ELSE [run EXCEPT !.pc = "raised", !.status = res.status,
                     !.adj_x = res.adj_x, !.assigned = TRUE]

\* One iteration of the while loop; an exception of the body ends the run.
InvStep ==
    /\ inv.pc = "loop"
    /\ InvLoopCond(inv.x_i)
    /\ inv.i <= InvMaxIter
    /\ CDivides(inv.i, CScale(inv.k, getitem(inv.x_i, ItemKey(0)).value))
    /\ inv' = InvAfter(inv, InvBody(inv.zeros, inv.x, inv.x_i, inv.i, inv.k))
    /\ UNCHANGED <<algebra, cache, mv, last, nops, call, arr>>

\* The loop is left: xinv = adj_x / x_i[0], which reads adj_x.
InvExit ==
    /\ inv.pc = "loop"
    /\ ~InvLoopCond(inv.x_i)
    /\ inv' = IF inv.assigned
              THEN [inv EXCEPT !.pc = "divide",
                               !.divisor = getitem(inv.x_i, ItemKey(0)).value]
              ELSE [inv EXCEPT !.pc = "raised", !.status = "UnboundLocalError"]
    /\ UNCHANGED <<algebra, cache, mv, last, nops, call, arr>>

InvNext ==
    \/ InvStep
    \/ InvExit

SpecInv == InvInit /\ [][InvNext]_vars

---------------------------------------------------------------------------
(* Calling a multivector as a function.  Here a coefficient is a plain     *)
(* number (an int or a float, which has no attribute free_symbols) or a    *)
(* symbolic expression, kept as the constant it adds to the sum of its     *)
(* free symbols.                                                           *)

\* A multivector that is called has at most MaxCallLen coefficients.
MaxCallLen == 3

\* A plain number.
PyNumber(n) == [kind |-> "number", n |-> n, free |-> {}]

\* The expression  n + s1 + s2 + ...  over the symbols of free.
SymExpr(n, free) == [kind |-> "expr", n |-> n, free |-> free]

\* The values of (v.free_symbols for v in self.values()), or the error the
\* first plain number raises when its attribute is read.
FreeSymbolSets(values) ==
    IF \E i \in DOMAIN values : values[i].kind = "number"
    THEN [status |-> "AttributeError", sets |-> <<>>]
    ELSE [status |-> "ok", sets |-> [i \in DOMAIN values |-> values[i].free]]

\* MultiVector.free_symbols: reduce(lambda tot, x: tot | x, ...) with no
\* initial value, which raises TypeError for an empty sequence.
free_symbols(m) ==
    LET each == FreeSymbolSets(m.values)
    IN  IF each.status # "ok" THEN [status |-> each.status, set |-> {}]
        ELSE IF Len(each.sets) = 0 THEN [status |-> "TypeError", set |-> {}]
        ELSE [status |-> "ok",
              set |-> UNION { each.sets[i] : i \in DOMAIN each.sets }]

\* The value of an expression when every free symbol is bound to arg.
EvalExpr(v, arg) == PyNumber(v.n + arg * Cardinality(v.free))

\* MultiVector.__call__ with every argument equal to arg: the multivector
\* itself when it has no free symbols, otherwise the value rebuilt from
\* what the compiled callable returns.
callmv(m, arg) ==
    LET fs == free_symbols(m)
    IN  IF fs.status # "ok"
        THEN [status |-> fs.status, self |-> FALSE, compiled |-> FALSE, mv |-> m]
        ELSE IF fs.set = {}
        THEN [status |-> "ok", self |-> TRUE, compiled |-> FALSE, mv |-> m]
        ELSE [status |-> "ok", self |-> FALSE, compiled |-> TRUE,
              mv |-> fromkeysvalues(m.keys,
                        [i \in DOMAIN m.values |-> EvalExpr(m.values[i], arg)])]

\* The coefficients of the multivectors that are called.
CallVals ==
    { PyNumber(1), SymExpr(1, {}), SymExpr(0, {"a"}), SymExpr(0, {"a", "b"}) }

\* The multivectors that are called: up to MaxCallLen coefficients on the
\* first keys of the algebra's key list.
CallInputs ==
    UNION { { fromkeysvalues(SubSeq(indices_for_grades(0 .. AlgD), 1, n), values) :
                values \in [1 .. n -> CallVals] } :
            n \in 0 .. (IF MaxCallLen < AlgLen THEN MaxCallLen ELSE AlgLen) }

CallArgs == { 1, 2 }

CallInit ==
    /\ algebra \in Signatures
    /\ cache = CacheIdle
    /\ \E m \in CallInputs :
          call = [pc |-> "ready", m |-> m, status |-> "ok", self |-> FALSE,
                  compiled |-> FALSE, result |-> m]
    /\ mv = MvIdle
    /\ last = LastIdle
    /\ nops = 0
    /\ inv = InvIdle
    /\ arr = ArrIdle

Call ==
    /\ call.pc = "ready"
    /\ \E arg \in CallArgs :
          LET res == callmv(call.m, arg)
          IN  call' = [call EXCEPT !.pc = "called", !.status = res.status,
                                   !.self = res.self, !.compiled = res.compiled,
                                   !.result = res.mv]
    /\ UNCHANGED <<algebra, cache, mv, last, nops, inv, arr>>

CallNext == Call

SpecCall == CallInit /\ [][CallNext]_vars

---------------------------------------------------------------------------
(* Array-valued coefficients.  A coefficient is a reference to an array    *)
(* object: an address of the heap, which gives the content of every array  *)
(* (one integer stands for the elements of an array, which an operation    *)
(* changes together).  A tuple of values holds references, so two          *)
(* multivectors can hold the same array.                                   *)

\* At most MaxArrOps operations are applied to multivectors of arrays.
MaxArrOps == 2

\* A multivector as its keys and the contents of its coefficients.
ArrView(heap, m) ==
    [keys |-> m.keys, values |-> [i \in DOMAIN m.values |-> heap[m.values[i]]]]

\* tuple(-v for v in self.values()): a new array for every coefficient.
ArrNegOf(heap, m) ==
    [heap |-> heap \o [i \in DOMAIN m.values |-> -heap[m.values[i]]],
     mv   |-> fromkeysvalues(m.keys, [i \in DOMAIN m.values |-> Len(heap) + i])]

\* tuple((-1)**(...) * v for k, v in self.items()): new arrays as well.
ArrInvertOf(heap, m) ==
    [heap |-> heap \o [i \in DOMAIN m.values |->
                          ReversionSign(m.keys[i]) * heap[m.values[i]]],
     mv   |-> fromkeysvalues(m.keys, [i \in DOMAIN m.values |-> Len(heap) + i])]

\* The loop of __add__ over the first n items of other.  vals[k] += v
\* calls the array's in-place addition: the array vals[k] refers to is
\* updated and stays the value of vals[k]; vals[k] = v stores the
\* reference v.
RECURSIVE ArrAddItems(_, _, _)
ArrAddItems(st, other, n) ==
    IF n = 0 THEN st
    ELSE LET acc == ArrAddItems(st, other, n - 1)
             k   == other.keys[n]
             v   == other.values[n]
         IN  IF k \in Range(acc.vals.keys)
             THEN [acc EXCEPT !.heap[DictGet(acc.vals, k)] = @ + acc.heap[v]]
             ELSE [acc EXCEPT !.vals = DictSet(acc.vals, k, v)]

\* MultiVector.__add__: vals = dict(self.items()) holds the references of
\* self.
ArrAddOf(heap, m, other) ==
    LET st == ArrAddItems([heap |-> heap,
                           vals |-> DictFromItems(m.keys, m.values, Len(m.keys))],
                          other, Len(other.keys))
    IN  [heap |-> st.heap, mv |-> fromkeysvalues(st.vals.keys, st.vals.values)]

\* MultiVector.__sub__: self + (-other)
ArrSubOf(heap, m, other) ==
    LET negated == ArrNegOf(heap, other)
    IN  ArrAddOf(negated.heap, m, negated.mv)

\* MultiVector.grade: self[k] is the reference self holds.
ArrGradeOf(heap, m, G) == [heap |-> heap, mv |-> grade(m, G)]

\* The multivectors of arrays at the start: two values, each with a new
\* array of content 1 on every key of one grade, or of all grades.
ArrOperand(keys, base) ==
    fromkeysvalues(keys, [i \in DOMAIN keys |-> base + i])

ArrInit ==
    /\ algebra \in Signatures
    /\ cache = CacheIdle
    /\ \E G1 \in OperandGrades, G2 \in OperandGrades :
          LET k1 == indices_for_grades(G1)
              k2 == indices_for_grades(G2)
          IN  arr = [pc |-> "run",
                     heap |-> [i \in 1 .. (Len(k1) + Len(k2)) |-> 1],
                     pool |-> <<ArrOperand(k1, 0), ArrOperand(k2, Len(k1))>>,
                     op |-> "new", self |-> 0, other |-> 0,
                     before |-> <<>>, n |-> 0]
    /\ mv = MvIdle
    /\ last = LastIdle
    /\ nops = 0
    /\ inv = InvIdle
    /\ call = CallIdle

\* The state after an operation on pool[s] (and pool[o], 0 when the
\* operation has one operand) with outcome res: the result joins the pool.
ArrAfter(op, s, o, res) ==
    [pc |-> "run", heap |-> res.heap, pool |-> Append(arr.pool, res.mv),
     op |-> op, self |-> s, other |-> o,
     before |-> [j \in DOMAIN arr.pool |-> ArrView(arr.heap, arr.pool[j])],
     n |-> arr.n + 1]

ArrReady == arr.pc = "run" /\ arr.n < MaxArrOps

ArrNeg ==
    /\ ArrReady
    /\ \E s \in DOMAIN arr.pool :
          arr' = ArrAfter("neg", s, 0, ArrNegOf(arr.heap, arr.pool[s]))
    /\ UNCHANGED <<algebra, cache, mv, last, nops, inv, call>>

ArrInvert ==
    /\ ArrReady
    /\ \E s \in DOMAIN arr.pool :
          arr' = ArrAfter("invert", s, 0, ArrInvertOf(arr.heap, arr.pool[s]))
    /\ UNCHANGED <<algebra, cache, mv, last, nops, inv, call>>

ArrAdd ==
    /\ ArrReady
    /\ \E s \in DOMAIN arr.pool, o \in DOMAIN arr.pool :
          arr' = ArrAfter("add", s, o,
                          ArrAddOf(arr.heap, arr.pool[s], arr.pool[o]))
    /\ UNCHANGED <<algebra, cache, mv, last, nops, inv, call>>

ArrSub ==
    /\ ArrReady
    /\ \E s \in DOMAIN arr.pool, o \in DOMAIN arr.pool :
          arr' = ArrAfter("sub", s, o,
                          ArrSubOf(arr.heap, arr.pool[s], arr.pool[o]))
    /\ UNCHANGED <<algebra, cache, mv, last, nops, inv, call>>

ArrGrade ==
    /\ ArrReady
    /\ \E s \in DOMAIN arr.pool, G \in OperandGrades :
          arr' = ArrAfter("grade", s, 0, ArrGradeOf(arr.heap, arr.pool[s], G))
    /\ UNCHANGED <<algebra, cache, mv, last, nops, inv, call>>

ArrNext ==
    \/ ArrNeg
    \/ ArrInvert
    \/ ArrAdd
    \/ ArrSub
    \/ ArrGrade

SpecArr == ArrInit /\ [][ArrNext]_vars

---------------------------------------------------------------------------
(* The commutator derivation codegen_cp.  Its two half-products            *)
(* gp(x, y / 2) and gp(y, x / 2) carry the factor 1/2 on every monomial;   *)
(* their expressions are kept in units of 1/2, so the integer factor of a  *)
(* monomial is twice its coefficient.  A monomial is <<ei, ej>> whichever  *)
(* operand comes first: the symbols commute.                               *)

\* The expression of gp(y, x / 2) written over the monomials of x and y.
SwapMonomials(e) ==
    [m \in { <<t[2], t[1]>> : t \in DOMAIN e } |-> e[<<m[2], m[1]>>]]

SwapDict(dct) ==
    [keys |-> dct.keys,
     values |-> [i \in DOMAIN dct.values |-> SwapMonomials(dct.values[i])]]

\* a - b
ESub(a, b) ==
    LET D == { t \in (DOMAIN a) \cup (DOMAIN b) : EAt(a, t) - EAt(b, t) # 0 }
    IN  [t \in D |-> EAt(a, t) - EAt(b, t)]

\* -a
ENeg(a) == [t \in DOMAIN a |-> -a[t]]

\* del dct[k]
DictDel(dct, k) ==
    LET keep == { i \in DOMAIN dct.keys : dct.keys[i] # k }
        pos(j) == CHOOSE i \in keep : Cardinality({ h \in keep : h < i }) = j - 1
    IN  [keys   |-> [j \in 1 .. Cardinality(keep) |-> dct.keys[pos(j)]],
         values |-> [j \in 1 .. Cardinality(keep) |-> dct.values[pos(j)]]]

\* The loop of codegen_cp with the branch  del xy[k]  left out: a key whose
\* two half-products are equal stays, with the expression 0.
RECURSIVE CpMerge_KeepCancelled(_, _, _)
CpMerge_KeepCancelled(xy, yx, n) ==
    IF n = 0 THEN xy
    ELSE LET acc == CpMerge_KeepCancelled(xy, yx, n - 1)
             k   == yx.keys[n]
             v   == yx.values[n]
         IN  IF k \in Range(acc.keys)
             THEN DictSet(acc, k, ESub(DictGet(acc, k), v))
             ELSE DictSet(acc, k, ENeg(v))

\* The loop of codegen_cp over the first n items of yx.
RECURSIVE CpMerge(_, _, _)
CpMerge(xy, yx, n) ==
    IF n = 0 THEN xy
    ELSE LET acc == CpMerge(xy, yx, n - 1)
             k   == yx.keys[n]
             v   == yx.values[n]
         IN  IF k \in Range(acc.keys)
             THEN IF ESub(DictGet(acc, k), v) # EZero
                  THEN DictSet(acc, k, ESub(DictGet(acc, k), v))
                  ELSE DictDel(acc, k)
             ELSE DictSet(acc, k, ENeg(v))

\* xy = codegen_gp(x, y / 2, symbolic=True)
CpHalfXY(xkeys, ykeys) == codegen_gp(xkeys, ykeys)

\* yx = codegen_gp(y, x / 2, symbolic=True)
CpHalfYX(xkeys, ykeys) == SwapDict(codegen_gp(ykeys, xkeys))

\* codegen_cp on the placeholders of two key tuples: the mapping handed to
\* _lambdify_binary.
codegen_cp(xkeys, ykeys) ==
    CpMerge(CpHalfXY(xkeys, ykeys), CpHalfYX(xkeys, ykeys),
            Len(CpHalfYX(xkeys, ykeys).keys))

\* The values the callable returns for a derived mapping: each expression
\* at the coefficients of x and y, the unit 1/2 applied.
CpValues(derived, x, y) ==
    [i \in DOMAIN derived.keys |->
        CQuot(EvalTerms(derived.values[i], DOMAIN derived.values[i], x, y), 2)]

\* algebra.cp(x, y): the commutator derived for the operands' key tuples,
\* evaluated at their coefficients and zipped with the derived output keys.
AlgebraCp(x, y) ==
    fromkeysvalues(codegen_cp(x.keys, y.keys).keys,
                   CpValues(codegen_cp(x.keys, y.keys), x, y))

\* The grade-homogeneous operands of the commutator: the non-empty key
\* sets of one grade, in the order of the algebra's key list, with
\* coefficients in 1 .. MaxVal.
CpOperands ==
    UNION { { fromkeysvalues(SortedKeys(S), values) :
                values \in [1 .. Cardinality(S) -> InputVals] } :
            S \in { T \in SUBSET AllKeys :
                      T # {} /\ \E g \in 0 .. AlgD : \A k \in T : PopCount(k) = g } }

CpInit ==
    /\ algebra \in Signatures
    /\ cache = CacheIdle
    /\ \E v \in CpOperands :
          /\ mv = v
          /\ last = [op |-> "new", status |-> "ok"]
    /\ nops = 0
    /\ inv = InvIdle
    /\ call = CallIdle
    /\ arr = ArrIdle

\* mv.cp(w), recorded with w.cp(mv).
Cp ==
    /\ last.op = "new"
    /\ \E w \in CpOperands :
          last' = [op |-> "cp", status |-> "ok", other |-> w,
                   result |-> AlgebraCp(mv, w), reverse |-> AlgebraCp(w, mv)]
    /\ nops' = nops + 1
    /\ UNCHANGED <<algebra, cache, mv, inv, call, arr>>

CpNext == Cp

SpecCp == CpInit /\ [][CpNext]_vars

---------------------------------------------------------------------------
(* The descriptor's store of derived operators.  MultiVector.gp and        *)
(* MultiVector.cp hand both operands to the descriptor, which derives and  *)
(* compiles an operator once per signature and calls the stored callable   *)
(* with the operands' coefficients.  A callable is kept as the key tuples  *)
(* it was derived for (its parameter order) and the derived mapping.       *)

\* At most MaxCalls operator calls are made on one descriptor.
MaxCalls == 3

CacheOps == { "gp", "cp" }

\* The signature of a call with the key tuples taken from the operands'
\* grades (keys_in of the retired _binary_operation): operands of the same
\* grades share a signature whatever their active keys.
CacheKey_ByGrades(op, x, y) ==
    <<op, indices_for_grades(Range(grades(x))), indices_for_grades(Range(grades(y)))>>

\* The signature of a call: the operator tag and the key tuples of the two
\* operands.
CacheKey(op, x, y) == <<op, x.keys, y.keys>>

\* Derivation and compilation of op for placeholders on the operands' keys.
CacheDerive(op, x, y) ==
    [xkeys  |-> x.keys, ykeys |-> y.keys,
     keys   |-> (IF op = "gp" THEN codegen_gp(x.keys, y.keys)
                 ELSE codegen_cp(x.keys, y.keys)).keys,
     values |-> (IF op = "gp" THEN codegen_gp(x.keys, y.keys)
                 ELSE codegen_cp(x.keys, y.keys)).values,
     op |-> op, first |-> <<x.values, y.values>>]

\* The callable of an entry applied to the flattened coefficients of x and
\* y, which it takes by position, and the result re-zipped with the
\* entry's output keys.
CacheApply(entry, x, y) ==
    IF Len(x.values) # Len(entry.xkeys) \/ Len(y.values) # Len(entry.ykeys)
    THEN [status |-> "TypeError", mv |-> MvIdle]
    ELSE [status |-> "ok",
          mv |-> fromkeysvalues(entry.keys,
                    IF entry.op = "gp"
                    THEN [i \in DOMAIN entry.keys |->
                            EvalTerms(entry.values[i], DOMAIN entry.values[i],
                                      fromkeysvalues(entry.xkeys, x.values),
                                      fromkeysvalues(entry.ykeys, y.values))]
                    ELSE CpValues(entry, fromkeysvalues(entry.xkeys, x.values),
                                  fromkeysvalues(entry.ykeys, y.values)))]

\* The store after a call with signature sig: a new entry when sig has
\* none.
CacheStore(entries, sig, op, x, y) ==
    IF sig \in DOMAIN entries THEN entries
    ELSE [s \in (DOMAIN entries) \cup {sig} |->
            IF s = sig THEN CacheDerive(op, x, y) ELSE entries[s]]

\* The number of derivations run for a key, one more when the call ran one.
CacheCount(derived, key, ran) ==
    IF ~ran THEN derived
    ELSE [s \in (DOMAIN derived) \cup {key} |->
            (IF s \in DOMAIN derived THEN derived[s] ELSE 0)
            + (IF s = key THEN 1 ELSE 0)]

\* The operands of the calls: first operands on one or both basis vectors
\* with every coefficient equal, second operands on one basis vector.
CacheFirstOperands ==
    { fromkeysvalues(keys, [i \in DOMAIN keys |-> v]) :
        keys \in { <<1>>, <<2>>, <<1, 2>> }, v \in InputVals }

CacheSecondOperands ==
    { fromkeysvalues(keys, <<CNum(1)>>) : keys \in { <<1>>, <<2>> } }

CacheInit ==
    /\ algebra \in Signatures
    /\ cache = [pc |-> "run", entries |-> <<>>, derived |-> <<>>, n |-> 0,
                op |-> "none", x |-> MvIdle, y |-> MvIdle, ran |-> FALSE,
                status |-> "ok", result |-> MvIdle]
    /\ mv = MvIdle
    /\ last = LastIdle
    /\ nops = 0
    /\ inv = InvIdle
    /\ call = CallIdle
    /\ arr = ArrIdle

\* The descriptor after the call op(x, y) on the store run.
CacheAfter(run, op, x, y, sig) ==
    [pc |-> "run",
     entries |-> CacheStore(run.entries, sig, op, x, y),
     derived |-> CacheCount(run.derived, <<op, x.keys, y.keys>>,
                            sig \notin DOMAIN run.entries),
     n |-> run.n + 1, op |-> op, x |-> x, y |-> y,
     ran |-> sig \notin DOMAIN run.entries,
     status |-> CacheApply(CacheStore(run.entries, sig, op, x, y)[sig], x, y).status,
     result |-> CacheApply(CacheStore(run.entries, sig, op, x, y)[sig], x, y).mv]

\* x.gp(y) or x.cp(y)
CacheCall ==
    /\ cache.pc = "run"
    /\ cache.n < MaxCalls
    /\ \E op \in CacheOps, x \in CacheFirstOperands, y \in CacheSecondOperands :
          cache' = CacheAfter(cache, op, x, y, CacheKey(op, x, y))
    /\ UNCHANGED <<algebra, mv, last, nops, inv, call, arr>>

CacheNext == CacheCall

SpecCache == CacheInit /\ [][CacheNext]_vars

---------------------------------------------------------------------------
(* Properties.                                                             *)

\* C1: calling the anticommutator derivation fails with a not-implemented
\* error: it raises NotImplementedError and returns nothing, in particular
\* not the error type itself.
C1_AcpRaisesNotImplemented ==
    last.op = "acp" =>
        /\ last.outcome = "raise"
        /\ last.value = "NotImplementedError"

\* The bound on the iterations of the inverse: the number of blades of the
\* algebra, which is at least the constant k of the iteration.
InvBound == AlgLen

\* C2: the inverse iteration never runs past a bound tied to the dimension
\* of the algebra: whatever x is, the loop has been left, or a failure has
\* been signalled, by the time InvBound iterations are complete.
C2_InvLoopBounded ==
    inv.pc = "loop" => inv.i - 1 <= InvBound

\* C3: v + 0 == v for every multivector v, whether or not 0 is one of its
\* active keys.
C3_AddZeroIsIdentity ==
    (last.op = "addscalar" /\ last.scalar = CNum(0)) => MvEq(mv, last.before)

\* The operands of the last operation on multivectors of arrays.
ArrOperandsOfLast == { arr.self, arr.other } \ {0}

\* C4: after a negation, reversion, addition, subtraction or grade
\* selection every operand has the keys and the coefficient values it had
\* before, also when its coefficients are arrays held by reference, and
\* the result is a new instance.
C4_OperandsUnchanged ==
    (arr.pc = "run" /\ arr.op # "new") =>
        /\ Len(arr.pool) = Len(arr.before) + 1
        /\ \A j \in ArrOperandsOfLast :
              ArrView(arr.heap, arr.pool[j]) = arr.before[j]

\* A multivector was constructed (the constructor did not raise).
HasValue == ~(last.op = "new" /\ last.status # "ok")

\* The call gives explicit keys and values whose lengths differ.
LengthsDiffer(inp) ==
    (~inp.vmap) /\ inp.hasKeys /\ Len(inp.keys) # Len(inp.values)

\* The call matches none of the four construction modes: no Mapping, no
\* full-length value sequence, no value sequence of the length of the
\* requested grades, no bare name.
MatchesNoMode(inp) ==
    /\ ~inp.vmap
    /\ Len(inp.values) # AlgLen
    /\ Len(inp.values) #
          Cardinality({ k \in AllKeys :
              PopCount(k) \in (IF inp.hasGrades THEN inp.grades ELSE 0 .. AlgD) })
    /\ ~(inp.name # "" /\ inp.values = <<>>)

\* C5: every multivector reached from the constructor by negation,
\* reversion, addition, subtraction and grade selection (and the other
\* operations of the model) has as many keys as values, and all its keys
\* are keys of the grades 0..d; a constructor call with explicit keys and
\* values of different lengths that matches no construction mode raises.
C5_LengthsAndKeyRange ==
    /\ HasValue =>
          /\ Len(mv.keys) = Len(mv.values)
          /\ \A i \in DOMAIN mv.keys :
                /\ mv.keys[i] \in 0 .. (2 ^ AlgD - 1)
                /\ PopCount(mv.keys[i]) \in 0 .. AlgD
    /\ (last.op = "new" /\ LengthsDiffer(last.inp) /\ MatchesNoMode(last.inp))
          => last.status \in {"TypeError", "ValueError", "KeyError"}

\* C5's case: a value holding a symbolic coefficient gained a key by an
\* addition or a subtraction.
C5_Witness ==
    /\ last.op \in {"add", "sub"}
    /\ Len(mv.keys) > Len(last.before.keys)
    /\ Len(last.before.keys) > 0
    /\ Len(mv.keys) = Len(mv.values)
    /\ \E i \in DOMAIN mv.values : ~CIsConst(mv.values[i])

\* C6: reading a valid blade, by key or by canonical name, returns the
\* stored coefficient when the blade is an active key and 0 when it is
\* not; it never raises.
C6_SparseRead ==
    last.op = "getitem" =>
        \A k \in 0 .. (2 ^ AlgD - 1) :
            (last.item = ItemKey(k) \/ last.item = ItemName(bin2canon(k))) =>
                /\ last.status = "ok"
                /\ (\E i \in DOMAIN mv.keys : mv.keys[i] = k)
                      => \E i \in DOMAIN mv.keys :
                            mv.keys[i] = k /\ last.value = mv.values[i]
                /\ (\A i \in DOMAIN mv.keys : mv.keys[i] # k)
                      => last.value = CZero

\* C6's case: a blade that is not active is read by name from a
\* multivector that has active keys, and 0 comes back.
C6_Witness ==
    /\ last.op = "getitem"
    /\ ~IsIntItem(last.item)
    /\ mv.keys # <<>>
    /\ \A i \in DOMAIN mv.keys : bin2canon(mv.keys[i]) # last.item.s
    /\ last.status = "ok"
    /\ last.value = CZero

\* C7: v.grade(g) has exactly the keys of g's key list that are active in
\* v, each once and with v's coefficient, and selecting g again changes
\* nothing.
C7_GradeRestrictsIdempotent ==
    last.op = "grade" =>
        /\ Range(mv.keys) =
              { k \in Range(last.before.keys) : PopCount(k) \in last.grades }
        /\ \A i, j \in DOMAIN mv.keys : mv.keys[i] = mv.keys[j] => i = j
        /\ Len(mv.values) = Len(mv.keys)
        /\ \A i \in DOMAIN mv.keys :
              \E j \in DOMAIN last.before.keys :
                  /\ last.before.keys[j] = mv.keys[i]
                  /\ last.before.values[j] = mv.values[i]
        /\ MvEq(grade(mv, last.grades), mv)

\* C7's case: a grade selection that dropped some keys and kept others.
C7_Witness ==
    /\ last.op = "grade"
    /\ mv.keys # <<>>
    /\ Len(mv.keys) < Len(last.before.keys)
    /\ MvEq(grade(mv, last.grades), mv)

\* No coefficient of m has a free symbol.
HoldsNoFreeSymbols(m) == \A i \in DOMAIN m.values : m.values[i].free = {}

\* C8: a multivector that holds no free symbol (numeric coefficients,
\* constant symbolic coefficients, or no active key) returns itself when
\* called: no error is raised and nothing is compiled.
C8_CallWithoutFreeSymbols ==
    (call.pc = "called" /\ HoldsNoFreeSymbols(call.m)) =>
        /\ call.status = "ok"
        /\ call.self
        /\ ~call.compiled
        /\ call.result = call.m

\* C9: in auto mode dual and undual take polarity exactly when r = 0 and
\* Hodge exactly when r = 1, and raise for every other r; an explicit
\* polarity or hodge is taken whatever r is; any other kind raises.
C9_DualityPolicy ==
    last.op \in {"dual", "undual"} =>
        /\ (last.kind = "auto" /\ AlgR = 0) => last.policy = "polarity"
        /\ (last.kind = "auto" /\ AlgR = 1) => last.policy = "hodge"
        /\ (last.kind = "auto" /\ AlgR \notin {0, 1})
              => (last.policy = "none" /\ last.status = "Exception" /\ mv = last.before)
        /\ last.kind = "polarity" => last.policy = "polarity"
        /\ last.kind = "hodge" => last.policy = "hodge"
        /\ last.kind \notin {"auto", "polarity", "hodge"}
              => (last.policy = "none" /\ last.status = "ValueError" /\ mv = last.before)

\* C9's case: auto mode in an algebra with two degenerate dimensions.
C9_Witness ==
    /\ last.op = "dual"
    /\ last.kind = "auto"
    /\ AlgR = 2
    /\ last.status = "Exception"

\* C10: in an algebra with at most one degenerate dimension, dual(v)
\* followed by undual gives v back, for every multivector v.
C10_DualUndualRoundTrip ==
    (last.op = "dual" /\ last.kind = "auto" /\ AlgR <= 1) =>
        /\ last.status = "ok"
        /\ undual(mv, "auto").status = "ok"
        /\ MvEq(undual(mv, "auto").mv, last.before)

\* The coefficient of m at key k, for a key of m.
ValueAt(m, k) == m.values[IndexOf(m.keys, k)]

\* The keys on which the two half-products of the commutator of x and y
\* are the same expression.
CpCancelledKeys(xkeys, ykeys) ==
    { k \in Range(CpHalfXY(xkeys, ykeys).keys) \cap Range(CpHalfYX(xkeys, ykeys).keys) :
        DictGet(CpHalfXY(xkeys, ykeys), k) = DictGet(CpHalfYX(xkeys, ykeys), k) }

\* C11: for grade-homogeneous v1 and v2, v1.cp(v2) and v2.cp(v1) have the
\* same set of output keys, each key once, the coefficients on every key
\* are the negation of one another, and a key whose two half-products are
\* equal is not an output key.
C11_CommutatorAntisymmetry ==
    last.op = "cp" =>
        /\ Range(last.result.keys) = Range(last.reverse.keys)
        /\ Len(last.result.keys) = Cardinality(Range(last.result.keys))
        /\ Len(last.reverse.keys) = Cardinality(Range(last.reverse.keys))
        /\ \A k \in Range(last.result.keys) :
              ValueAt(last.result, k) = CNeg(ValueAt(last.reverse, k))
        /\ Range(last.result.keys) \cap CpCancelledKeys(mv.keys, last.other.keys) = {}
        /\ \A i \in DOMAIN last.result.keys :
              codegen_cp(mv.keys, last.other.keys).values[i] # EZero

\* C11's case: the commutator of two operands with two keys each, in which
\* one key was cancelled and another is left with a non-zero coefficient.
C11_Witness ==
    /\ last.op = "cp"
    /\ Len(mv.keys) = 2
    /\ Len(last.other.keys) = 2
    /\ CpCancelledKeys(mv.keys, last.other.keys) # {}
    /\ \E k \in Range(last.result.keys) : ValueAt(last.result, k) # CZero

CoefficientAt(m, k) == IF k \in Range(m.keys) THEN ValueAt(m, k) ELSE CZero

\* The whole numbers n / 2 rounded down and rounded up.
FloorHalf(n) == CHOOSE h \in 0 .. n : 2 * h <= n /\ n < 2 * h + 2

CeilHalf(n) == CHOOSE h \in 0 .. n : 2 * h - 2 < n /\ n <= 2 * h

\* An iteration with the constant k gives an adjoint that is the running
\* term with c_i = k * scalar_part(x_i) / i taken from the scalar slot and
\* every other coefficient as it is.
InvStepSubtracts(k) ==
    (inv.pc = "loop" /\ inv'.pc = "loop" /\ inv'.i = inv.i + 1) =>
        /\ Range(inv'.adj_x.keys) \ {0} = Range(inv.x_i.keys) \ {0}
        /\ \A key \in Range(inv.x_i.keys) \ {0} :
              ValueAt(inv'.adj_x, key) = ValueAt(inv.x_i, key)
        /\ CScale(inv.i, CAdd(CoefficientAt(inv'.adj_x, 0),
                              CNeg(CoefficientAt(inv.x_i, 0))))
              = CNeg(CScale(k, CoefficientAt(inv.x_i, 0)))

\* C13 as stated: the constant of the inverse is 2^ceil((d+1)/2) in every
\* dimension d, and each step takes c_i = k * scalar_part(x_i) / i from the
\* scalar slot only.
C13_ConstantRoundedUp ==
    /\ [](inv.pc # "idle" => inv.k = 2 ^ CeilHalf(AlgD + 1))
    /\ [][InvStepSubtracts(2 ^ CeilHalf(AlgD + 1))]_vars

\* C13, amended: the constant of the inverse is 2^floor((d+1)/2) in every
\* dimension d, odd and even, and each step takes
\* c_i = k * scalar_part(x_i) / i from the scalar slot only.
C13_ConstantRoundedDown ==
    /\ [](inv.pc # "idle" => inv.k = 2 ^ FloorHalf(AlgD + 1))
    /\ [][InvStepSubtracts(2 ^ FloorHalf(AlgD + 1))]_vars

\* C13's case: in an algebra of even dimension, where the two roundings
\* differ, the first iteration has taken a c_1 other than 0 from the scalar
\* slot of an x that has other blades as well.
C13_Witness ==
    /\ inv.pc = "loop"
    /\ inv.i = 2
    /\ AlgD % 2 = 0
    /\ CoefficientAt(inv.x, 0) # CZero
    /\ Range(inv.x.keys) \ {0} # {}
    /\ CoefficientAt(inv.adj_x, 0) # CoefficientAt(inv.x, 0)

\* The loop of the inverse has been left by its condition: the division is
\* reached, or the read of adj_x has failed.
InvLoopLeft ==
    \/ inv.pc = "divide"
    \/ inv.pc = "raised" /\ inv.status = "UnboundLocalError"

\* C14: whenever the loop of the inverse is left, the adjoint of the final
\* division has been assigned by an iteration and the divisor, the scalar
\* part of the running term, is not 0, for every x, also a purely scalar
\* one and one without keys, for which no iteration runs.
C14_AdjointAssignedDivisorNonZero ==
    InvLoopLeft =>
        /\ inv.assigned
        /\ getitem(inv.x_i, ItemKey(0)).value # CZero

====
